---- MODULE Spec2Model ----
(***************************************************************************)
(* Model of circuit_breaker/circuit.py: the CircuitBreaker state machine,  *)
(* its outcome classifier, its cooldown clock, the wrapper produced by     *)
(* CircuitBreaker.decorator and the CircuitOpenError it raises.            *)
(*                                                                         *)
(* One breaker instance is shared by the callers in Threads.  A call is a  *)
(* sequence of steps (the pc of the caller), one step per method call of   *)
(* the bookkeeping code, so that callers can interleave where Python can   *)
(* switch threads.  Time is the value of time.monotonic(), in whole        *)
(* seconds.                                                                *)
(***************************************************************************)
EXTENDS Integers, FiniteSets, TLC

VARIABLES
    state,                  \* self._state
    failure_counter,        \* self._failure_counter
    success_counter,        \* self._success_counter
    start_time_open_state,  \* self._start_time_open_state (None until first opened)
    max_failure_count,      \* self._max_failure_count
    min_success_count,      \* self._min_success_count
    timeout,                \* self._timeout
    handle_exceptions,      \* self._handle_exceptions
    excluded_exceptions,    \* self._excluded_exceptions ({} stands for None)
    fallback_function,      \* self._fallback_function is set (TRUE) or None (FALSE)
    now,                    \* the value time.monotonic() returns
    pc,                     \* pc[t]: where caller t is in wrapper/_execute/__exit__
    tmp,                    \* tmp[t]: the counter value loaded by a += in progress
    ret,                    \* ret[t]: how the last call of t ended
    arg,                    \* arg[t]: the argument of the call t is making
    err_left,               \* err_left[t]: last value read from the CircuitOpenError t holds
    hist                    \* observation record of the latest steps (history variable)

cfg_vars == <<max_failure_count, min_success_count, timeout, handle_exceptions,
              excluded_exceptions, fallback_function>>
breaker_vars == <<state, failure_counter, success_counter, start_time_open_state>>
vars == <<state, failure_counter, success_counter, start_time_open_state,
          max_failure_count, min_success_count, timeout, handle_exceptions,
          excluded_exceptions, fallback_function, now, pc, tmp, ret, arg, err_left, hist>>

----------------------------------------------------------------------------
(* Bounds of the model *)

MaxTime == 6
MaxTimeConc == 3

Threads == {"t1", "t2"}

----------------------------------------------------------------------------
(* class BreakerState and the class attributes of CircuitBreaker *)

CLOSED == "closed"
OPEN == "open"
HALF_OPEN == "half_open"
BreakerState == {CLOSED, OPEN, HALF_OPEN}

None == -1
FAILURE_COUNT == 2
SUCCESS_COUNT == 2
TIMEOUT == 30
HANDLE_EXCEPTIONS == {"Exception"}
EXCLUDED_EXCEPTIONS == {}
FALLBACK_FUNCTION == FALSE

(* The exception classes the protected function may raise, with Python's   *)
(* class hierarchy: KeyError < LookupError < Exception < BaseException,    *)
(* ValueError < Exception, KeyboardInterrupt < BaseException.              *)
ExcClasses == {"BaseException", "Exception", "LookupError", "KeyError",
               "ValueError", "KeyboardInterrupt"}
Raisable == {"LookupError", "KeyError", "ValueError", "KeyboardInterrupt"}

Bases(c) ==
    CASE c = "KeyError" -> {"KeyError", "LookupError", "Exception", "BaseException"}
      [] c = "LookupError" -> {"LookupError", "Exception", "BaseException"}
      [] c = "ValueError" -> {"ValueError", "Exception", "BaseException"}
      [] c = "Exception" -> {"Exception", "BaseException"}
      [] c = "KeyboardInterrupt" -> {"KeyboardInterrupt", "BaseException"}
      [] OTHER -> {"BaseException"}

(* issubclass(exc_type, classes) for a tuple of classes *)
issubclass(exc_type, classes) == Bases(exc_type) \cap classes # {}

(* Python truthiness of an optional number: None and 0 are false *)
Truthy(x) == x # None /\ x # 0

(* x or default *)
Or(x, default) == IF Truthy(x) THEN x ELSE default

(* s or default, for a tuple: None and () are false *)
OrTuple(s, default) == IF s # {} THEN s ELSE default

----------------------------------------------------------------------------
(* CircuitBreaker.__init__ *)

(* The arguments the breaker is constructed with.  None and 0 stand for    *)
(* an argument left out or false; the timeouts are timedeltas of whole     *)
(* positive seconds, short enough to elapse before MaxTime.                *)
Args == {0, 1}
FailureCountArgs == {None, 0, 1, 2, 3}
SuccessCountArgs == {None, 0, 1, 2, 3}
TimeoutArgs == {1, 2}
HandleArgs == {{}, {"LookupError"}}
ExcludeArgs == {{}, {"LookupError"}}

(* timeout.total_seconds() if timeout else self.TIMEOUT *)
InitTimeout(t) == IF Truthy(t) THEN t ELSE TIMEOUT

NoRet == [kind |-> "none", exc |-> "", arg |-> None]

NoHist ==
    [streak |-> 0, opens |-> 0, hsucc |-> None,
     trial |-> [t \in Threads |-> FALSE],
     exit_state |-> [t \in Threads |-> "none"],
     exit_sc |-> [t \in Threads |-> None],
     fed |-> [t \in Threads |-> "none"],
     rej |-> [t \in Threads |-> None],
     timeout_arg |-> None,
     cfail |-> 0, csucc |-> FALSE]

Construct(failure_count, success_count, timeout_arg, handle_arg, excluded_arg, fallback_arg) ==
    /\ state = CLOSED
    /\ failure_counter = 0
    /\ max_failure_count = Or(failure_count, FAILURE_COUNT)
    /\ success_counter = 0
    /\ min_success_count = Or(success_count, SUCCESS_COUNT)
    /\ timeout = InitTimeout(timeout_arg)
    /\ handle_exceptions = OrTuple(handle_arg, HANDLE_EXCEPTIONS)
    /\ excluded_exceptions = OrTuple(excluded_arg, EXCLUDED_EXCEPTIONS)
    /\ fallback_function = (fallback_arg \/ FALLBACK_FUNCTION)
    /\ start_time_open_state = None

(* A breaker just constructed, with arguments from the given sets, and    *)
(* its callers not yet calling                                             *)
InitWith(failure_counts, success_counts, timeouts, handles, excludes, fallbacks) ==
    /\ \E f \in failure_counts, s \in success_counts, d \in timeouts,
          h \in handles, e \in excludes, fb \in fallbacks :
            /\ Construct(f, s, d, h, e, fb)
            /\ hist = [NoHist EXCEPT !.timeout_arg = d]
    /\ now = 1    \* time.monotonic() is positive
    /\ pc = [t \in Threads |-> "idle"]
    /\ tmp = [t \in Threads |-> 0]
    /\ ret = [t \in Threads |-> NoRet]
    /\ arg = [t \in Threads |-> None]
    /\ err_left = [t \in Threads |-> None]

Init ==
    InitWith(FailureCountArgs, SuccessCountArgs, TimeoutArgs, HandleArgs,
             ExcludeArgs, BOOLEAN)

----------------------------------------------------------------------------
(* Properties and predicates of CircuitBreaker *)

(* The same without the test of line 73 *)
time_left_unclamped ==
    IF ~Truthy(start_time_open_state) THEN 0
    ELSE timeout - (now - start_time_open_state)

(* time_left_in_open_state *)
time_left_in_open_state ==
    IF ~Truthy(start_time_open_state) THEN 0
    ELSE IF now - start_time_open_state > timeout THEN 0
    ELSE timeout - (now - start_time_open_state)

is_opened == state = OPEN
is_closed == state = CLOSED
is_half_opened == state = HALF_OPEN

(* The same without the test of excluded_exceptions *)
handle_error_without_excluded(exc_type) == issubclass(exc_type, handle_exceptions)

(* The same with the excluded classes compared by identity *)
handle_error_excluded_exact(exc_type) ==
    IF excluded_exceptions # {}
    THEN exc_type \notin excluded_exceptions
            /\ issubclass(exc_type, handle_exceptions)
    ELSE issubclass(exc_type, handle_exceptions)

(* _is_need_handle_error *)
_is_need_handle_error(exc_type) ==
    IF excluded_exceptions # {}
    THEN ~issubclass(exc_type, excluded_exceptions)
            /\ issubclass(exc_type, handle_exceptions)
    ELSE issubclass(exc_type, handle_exceptions)

(* The same with >= in place of > at line 193 *)
finished_at_boundary ==
    IF ~Truthy(start_time_open_state) THEN TRUE
    ELSE now - start_time_open_state >= timeout

(* The same with the operands of the subtraction of line 191 swapped *)
finished_operands_swapped ==
    IF ~Truthy(start_time_open_state) THEN TRUE
    ELSE start_time_open_state - now > timeout

(* _is_func_exec_after_open_state_finished *)
_is_func_exec_after_open_state_finished ==
    IF ~Truthy(start_time_open_state) THEN TRUE
    ELSE now - start_time_open_state > timeout

(* The same with > in place of >= at line 209 *)
failure_limit_exceeded == failure_counter > max_failure_count

_failure_limit_is_reached == failure_counter >= max_failure_count

(* The same with > in place of >= at line 218 *)
success_limit_exceeded == success_counter > min_success_count

_success_limit_is_reached == success_counter >= min_success_count

----------------------------------------------------------------------------
(* History bookkeeping: what the latest calls did.  It is written by the   *)
(* actions and read only by the properties below.                          *)

(* hist.cfail counts the failures counted while Closed since the breaker    *)
(* last entered Closed, hist.csucc tells that a success came after one of   *)
(* them, hist.timeout_arg is the timeout the breaker was constructed with.  *)

(* A call of t ended with event ev, leaving the breaker in st with fc failures *)
HistEvent(h, ev, st, fc) ==
    LET streak == IF ev = "failure"
                  THEN IF h.streak >= 0 /\ h.streak < max_failure_count
                       THEN h.streak + 1 ELSE None
                  ELSE IF st = CLOSED /\ fc = 0 THEN 0 ELSE None
        hsucc == IF ev = "success" /\ h.hsucc >= 0 /\ h.hsucc < min_success_count
                 THEN h.hsucc + 1 ELSE None
    IN [h EXCEPT !.streak = streak,
                 !.opens = IF streak > 0 THEN h.opens ELSE 0,
                 !.hsucc = hsucc]

(* _switch_state(OPEN) was called *)
HistOpen(h) == [h EXCEPT !.opens = IF h.opens < 2 THEN h.opens + 1 ELSE 2]

----------------------------------------------------------------------------
(* wrapper, lines 110-119 *)

Goto(t, label) == pc' = [pc EXCEPT ![t] = label]

(* raise CircuitOpenError(self): the error keeps a reference to the breaker *)
CircuitOpenError == [kind |-> "raised", exc |-> "CircuitOpenError", arg |-> None]

(* The same without the elif of line 114 *)
reject_without_fallback(a) == CircuitOpenError

(* The rejection of a call, lines 114-117 *)
Reject(a) ==
    IF fallback_function
    THEN [kind |-> "fallback", exc |-> "", arg |-> a]
    ELSE CircuitOpenError

(* wrapper(...), lines 111-117: the caller reads is_opened and, if Open,   *)
(* the clock (the instant the call arrives); it is rejected, goes on to    *)
(* line 113 or goes on to _execute                                         *)
Call(t, a) ==
    /\ pc[t] = "idle"
    /\ arg' = [arg EXCEPT ![t] = a]
    /\ IF is_opened
       THEN IF _is_func_exec_after_open_state_finished
            THEN /\ Goto(t, "switch_half")
                 /\ ret' = ret
                 /\ hist' = [hist EXCEPT !.trial[t] = TRUE]
            ELSE /\ Goto(t, "done")
                 /\ ret' = [ret EXCEPT ![t] = Reject(a)]
                 /\ hist' = [HistEvent(hist, "rejected", state, failure_counter)
                                EXCEPT !.rej[t] = IF Reject(a) = CircuitOpenError
                                                  THEN time_left_in_open_state
                                                  ELSE None]
       ELSE /\ Goto(t, "exec")
            /\ ret' = ret
            /\ hist' = hist
    /\ UNCHANGED <<breaker_vars, cfg_vars, now, tmp, err_left>>

(* The same without lines 178-179 *)
switch_half_open_keep_successes(t) ==
    /\ pc[t] = "switch_half"
    /\ state' = HALF_OPEN
    /\ Goto(t, "exec")
    /\ hist' = [hist EXCEPT !.hsucc = 0, !.streak = None, !.opens = 0,
                            !.cfail = 0, !.csucc = FALSE]
    /\ UNCHANGED <<failure_counter, success_counter, start_time_open_state, cfg_vars,
                   now, tmp, ret, arg, err_left>>

(* self._switch_state(BreakerState.HALF_OPEN), line 113 with 170, 178-179 *)
SwitchHalfOpen(t) ==
    /\ pc[t] = "switch_half"
    /\ state' = HALF_OPEN
    /\ success_counter' = 0
    /\ Goto(t, "exec")
    /\ hist' = [hist EXCEPT !.hsucc = 0, !.streak = None, !.opens = 0,
                            !.cfail = 0, !.csucc = FALSE]
    /\ UNCHANGED <<failure_counter, start_time_open_state, cfg_vars, now, tmp, ret,
                   arg, err_left>>

(* The same with a success while Closed resetting the failure counter *)
exit_success_resets_failures(t, outcome) ==
    /\ pc[t] = "exec"
    /\ LET r == IF outcome = "ok"
                THEN [kind |-> "returned", exc |-> "", arg |-> arg[t]]
                ELSE [kind |-> "raised", exc |-> outcome, arg |-> None]
           next == IF outcome = "ok"
                   THEN IF is_half_opened THEN "inc_success" ELSE "done"
                   ELSE IF _is_need_handle_error(outcome)
                        THEN IF is_closed THEN "inc_failure" ELSE "check_half"
                        ELSE "done"
           fed == IF outcome = "ok" THEN "success"
                  ELSE IF _is_need_handle_error(outcome) THEN "failure"
                  ELSE "ignored"
           h == [hist EXCEPT !.exit_state[t] = state,
                             !.exit_sc[t] = success_counter,
                             !.fed[t] = fed,
                             !.cfail = IF fed = "failure" /\ is_closed
                                       THEN @ + 1 ELSE @,
                             !.csucc = @ \/ (fed = "success" /\ is_closed
                                                /\ hist.cfail > 0)]
       IN /\ ret' = [ret EXCEPT ![t] = r]
          /\ Goto(t, next)
          /\ hist' = IF next = "done"
                     THEN HistEvent(h, fed, state, failure_counter)
                     ELSE h
    /\ failure_counter' = IF outcome = "ok" /\ is_closed THEN 0 ELSE failure_counter
    /\ UNCHANGED <<state, success_counter, start_time_open_state, cfg_vars, now, tmp,
                   arg, err_left>>

(* _execute: func(...) ends with outcome (a return or a raised  *)
(* class), then __exit__ classifies it and the pipeline reads the state     *)
Exit(t, outcome) ==
    /\ pc[t] = "exec"
    /\ LET r == IF outcome = "ok"
                THEN [kind |-> "returned", exc |-> "", arg |-> arg[t]]
                ELSE [kind |-> "raised", exc |-> outcome, arg |-> None]
           next == IF outcome = "ok"
                   THEN IF is_half_opened THEN "inc_success" ELSE "done"
                   ELSE IF _is_need_handle_error(outcome)
                        THEN IF is_closed THEN "inc_failure" ELSE "check_half"
                        ELSE "done"
           fed == IF outcome = "ok" THEN "success"
                  ELSE IF _is_need_handle_error(outcome) THEN "failure"
                  ELSE "ignored"
           h == [hist EXCEPT !.exit_state[t] = state,
                             !.exit_sc[t] = success_counter,
                             !.fed[t] = fed,
                             !.cfail = IF fed = "failure" /\ is_closed
                                       THEN @ + 1 ELSE @,
                             !.csucc = @ \/ (fed = "success" /\ is_closed
                                                /\ hist.cfail > 0)]
       IN /\ ret' = [ret EXCEPT ![t] = r]
          /\ Goto(t, next)
          /\ hist' = IF next = "done"
                     THEN HistEvent(h, fed, state, failure_counter)
                     ELSE h
    /\ UNCHANGED <<breaker_vars, cfg_vars, now, tmp, arg, err_left>>

----------------------------------------------------------------------------
(* _error_pipeline, lines 147-155 *)

(* elif self.is_half_opened, line 153 *)
CheckHalfOpened(t) ==
    /\ pc[t] = "check_half"
    /\ IF is_half_opened
       THEN /\ Goto(t, "reset_success")
            /\ hist' = hist
       ELSE /\ Goto(t, "done")
            /\ hist' = HistEvent(hist, "failure", state, failure_counter)
    /\ UNCHANGED <<breaker_vars, cfg_vars, now, tmp, ret, arg, err_left>>

(* self._failure_counter += 1 reads the counter ... *)
LoadFailureCounter(t) ==
    /\ pc[t] = "inc_failure"
    /\ tmp' = [tmp EXCEPT ![t] = failure_counter]
    /\ Goto(t, "store_failure")
    /\ UNCHANGED <<breaker_vars, cfg_vars, now, ret, arg, err_left, hist>>

(* ... and writes it back, line 230 *)
_increase_failure_counter(t) ==
    /\ pc[t] = "store_failure"
    /\ failure_counter' = tmp[t] + 1
    /\ tmp' = [tmp EXCEPT ![t] = 0]
    /\ Goto(t, "check_failure")
    /\ UNCHANGED <<state, success_counter, start_time_open_state, cfg_vars, now, ret,
                   arg, err_left, hist>>

(* if self._failure_limit_is_reached(), line 151 *)
CheckFailureLimit(t) ==
    /\ pc[t] = "check_failure"
    /\ IF _failure_limit_is_reached
       THEN /\ Goto(t, "open_closed")
            /\ hist' = hist
       ELSE /\ Goto(t, "done")
            /\ hist' = HistEvent(hist, "failure", state, failure_counter)
    /\ UNCHANGED <<breaker_vars, cfg_vars, now, tmp, ret, arg, err_left>>

(* The same without line 173 *)
switch_state_open_without_time ==
    /\ state' = OPEN
    /\ UNCHANGED start_time_open_state

(* self._switch_state(BreakerState.OPEN), lines 170-173 and 200 *)
_switch_state_open ==
    /\ state' = OPEN
    /\ start_time_open_state' = now

(* line 152 *)
OpenFromClosed(t) ==
    /\ pc[t] = "open_closed"
    /\ _switch_state_open
    /\ Goto(t, "done")
    /\ hist' = HistEvent(HistOpen(hist), "failure", OPEN, failure_counter)
    /\ UNCHANGED <<failure_counter, success_counter, cfg_vars, now, tmp, ret, arg,
                   err_left>>

(* The same without line 226 *)
keep_success_counter(t) ==
    /\ pc[t] = "reset_success"
    /\ Goto(t, "open_half")
    /\ UNCHANGED <<breaker_vars, cfg_vars, now, tmp, ret, arg, err_left, hist>>

(* self._reset_success_counter(), line 154 *)
_reset_success_counter(t) ==
    /\ pc[t] = "reset_success"
    /\ success_counter' = 0
    /\ Goto(t, "open_half")
    /\ UNCHANGED <<state, failure_counter, start_time_open_state, cfg_vars, now, tmp,
                   ret, arg, err_left, hist>>

(* line 155 *)
OpenFromHalfOpen(t) ==
    /\ pc[t] = "open_half"
    /\ _switch_state_open
    /\ Goto(t, "done")
    /\ hist' = HistEvent(HistOpen(hist), "failure", OPEN, failure_counter)
    /\ UNCHANGED <<failure_counter, success_counter, cfg_vars, now, tmp, ret, arg,
                   err_left>>

----------------------------------------------------------------------------
(* _success_pipeline, lines 157-162 *)

(* self._success_counter += 1 reads the counter ... *)
LoadSuccessCounter(t) ==
    /\ pc[t] = "inc_success"
    /\ tmp' = [tmp EXCEPT ![t] = success_counter]
    /\ Goto(t, "store_success")
    /\ UNCHANGED <<breaker_vars, cfg_vars, now, ret, arg, err_left, hist>>

(* ... and writes it back, line 234 *)
_increase_success_counter(t) ==
    /\ pc[t] = "store_success"
    /\ success_counter' = tmp[t] + 1
    /\ tmp' = [tmp EXCEPT ![t] = 0]
    /\ Goto(t, "check_success")
    /\ UNCHANGED <<state, failure_counter, start_time_open_state, cfg_vars, now, ret,
                   arg, err_left, hist>>

(* if self._success_limit_is_reached(), line 161 *)
CheckSuccessLimit(t) ==
    /\ pc[t] = "check_success"
    /\ IF _success_limit_is_reached
       THEN /\ Goto(t, "close")
            /\ hist' = hist
       ELSE /\ Goto(t, "done")
            /\ hist' = HistEvent(hist, "success", state, failure_counter)
    /\ UNCHANGED <<breaker_vars, cfg_vars, now, tmp, ret, arg, err_left>>

(* The same without lines 175-176 *)
switch_closed_keep_failures(t) ==
    /\ pc[t] = "close"
    /\ state' = CLOSED
    /\ Goto(t, "done")
    /\ hist' = [HistEvent(hist, "success", CLOSED, 0)
                    EXCEPT !.cfail = 0, !.csucc = FALSE]
    /\ UNCHANGED <<failure_counter, success_counter, start_time_open_state, cfg_vars,
                   now, tmp, ret, arg, err_left>>

(* self._switch_state(BreakerState.CLOSED), line 162 with 170, 175-176 *)
SwitchClosed(t) ==
    /\ pc[t] = "close"
    /\ state' = CLOSED
    /\ failure_counter' = 0
    /\ Goto(t, "done")
    /\ hist' = [HistEvent(hist, "success", CLOSED, 0)
                    EXCEPT !.cfail = 0, !.csucc = FALSE]
    /\ UNCHANGED <<success_counter, start_time_open_state, cfg_vars, now, tmp, ret,
                   arg, err_left>>

----------------------------------------------------------------------------
(* The caller and the clock *)

(* The same if the error stored the value when it was raised *)
error_str_at_raise(t) == hist.rej[t]

(* CircuitOpenError.__str__: the time left shown by the error caller t holds *)
CircuitOpenError_str(t) == time_left_in_open_state

(* str(error) on the CircuitOpenError the caller caught *)
ReadError(t) ==
    /\ pc[t] = "done"
    /\ ret[t] = CircuitOpenError
    /\ err_left' = [err_left EXCEPT ![t] = CircuitOpenError_str(t)]
    /\ UNCHANGED <<breaker_vars, cfg_vars, now, pc, tmp, ret, arg, hist>>

(* The caller has its result (or exception) and drops it *)
Return(t) ==
    /\ pc[t] = "done"
    /\ Goto(t, "idle")
    /\ ret' = [ret EXCEPT ![t] = NoRet]
    /\ arg' = [arg EXCEPT ![t] = None]
    /\ err_left' = [err_left EXCEPT ![t] = None]
    /\ hist' = [hist EXCEPT !.trial[t] = FALSE, !.exit_state[t] = "none",
                            !.exit_sc[t] = None, !.fed[t] = "none",
                            !.rej[t] = None]
    /\ UNCHANGED <<breaker_vars, cfg_vars, now, tmp>>

(* time.monotonic() advances *)
Clock(max) ==
    /\ now < max
    /\ now' = now + 1
    /\ UNCHANGED <<breaker_vars, cfg_vars, pc, tmp, ret, arg, err_left, hist>>

Tick == Clock(MaxTime)

(* A step of a call under way, the protected function ending with one of  *)
(* the given outcomes                                                      *)
StepWith(t, outcomes) ==
    \/ SwitchHalfOpen(t)
    \/ \E outcome \in outcomes : Exit(t, outcome)
    \/ CheckHalfOpened(t)
    \/ LoadFailureCounter(t)
    \/ _increase_failure_counter(t)
    \/ CheckFailureLimit(t)
    \/ OpenFromClosed(t)
    \/ _reset_success_counter(t)
    \/ OpenFromHalfOpen(t)
    \/ LoadSuccessCounter(t)
    \/ _increase_success_counter(t)
    \/ CheckSuccessLimit(t)
    \/ SwitchClosed(t)
    \/ ReadError(t)
    \/ Return(t)

Step(t) == StepWith(t, {"ok"} \cup Raisable)

(* Calls made one after the other, by one caller *)
Caller == "t1"

Next ==
    \/ \E a \in Args : Call(Caller, a)
    \/ Step(Caller)
    \/ Tick

Spec == Init /\ [][Next]_vars

(* Callers on concurrent threads: any interleaving of their steps, for a  *)
(* breaker with the default exception classes and a timeout of 1 second   *)
InitConc == InitWith({1, 2}, {1, 2}, {1}, {{}}, {{}}, {FALSE})

TickConc == Clock(MaxTimeConc)

NextConc ==
    \/ \E t \in Threads : Call(t, 0)
    \/ \E t \in Threads : StepWith(t, {"ok", "ValueError", "KeyboardInterrupt"})
    \/ TickConc

SpecConc == InitConc /\ [][NextConc]_vars

(* Calls made one after the other on a breaker constructed with timeout    *)
(* left out (None), timedelta(0) or timedelta(seconds=1)                   *)
InitAnyTimeout == InitWith({1, 2}, {1, 2}, {None, 0, 1}, {{}}, {{}}, BOOLEAN)

SpecAnyTimeout == InitAnyTimeout /\ [][Next]_vars

(* Calls made one after the other, for ever: the clock advances (up to     *)
(* MaxTime), the caller calls again whenever it is idle, the protected     *)
(* function ends and the bookkeeping of a call under way runs on           *)
InitLive == InitWith({1, 2}, {1, 2}, {1, 2}, {{}}, {{}}, {FALSE})

LiveOutcomes == {"ok", "ValueError", "KeyboardInterrupt"}

NextLive ==
    \/ Call(Caller, 0)
    \/ StepWith(Caller, LiveOutcomes)
    \/ Tick

SpecLive ==
    /\ InitLive
    /\ [][NextLive]_vars
    /\ WF_vars(Tick)
    /\ WF_vars(Call(Caller, 0))
    /\ WF_vars(StepWith(Caller, LiveOutcomes))
    /\ WF_vars(Return(Caller))

TypeOK ==
    /\ state \in BreakerState
    /\ failure_counter \in Nat
    /\ success_counter \in Nat
    /\ max_failure_count \in 1 .. 3
    /\ min_success_count \in 1 .. 3
    /\ timeout \in TimeoutArgs \cup {TIMEOUT}
    /\ pc \in [Threads -> {"idle", "switch_half", "exec", "check_half", "inc_failure",
                           "store_failure", "check_failure", "open_closed",
                           "reset_success", "open_half", "inc_success",
                           "store_success", "check_success", "close", "done"}]
    /\ start_time_open_state \in {None} \cup (1 .. MaxTime)
    /\ now \in 1 .. MaxTime

----------------------------------------------------------------------------
(* Properties *)

(* No call is under way *)
Quiescent == \A t \in Threads : pc[t] \in {"idle", "done"}

(* The cooldown, as the design states it: elapsed time since the opening *)
Elapsed == now - start_time_open_state

(* A step in which caller t invokes the wrapper *)
Calls(t) == pc[t] = "idle" /\ pc'[t] # "idle"

(* The call of t was turned away without running the protected function *)
Rejected(t) ==
    /\ pc'[t] = "done"
    /\ ret'[t].kind = "fallback" \/ ret'[t] = CircuitOpenError
    /\ hist'.fed[t] = "none"

(* C1: starting from Closed with no failure counted, after k consecutive   *)
(* counted failures the breaker is still Closed while k is below the       *)
(* failure threshold, and Open when k equals it, _switch_state(OPEN)       *)
(* having been called exactly once in that sequence.                       *)
C1_OpensOnThreshold ==
    (Quiescent /\ hist.streak >= 0) =>
        /\ hist.streak < max_failure_count => (state = CLOSED /\ hist.opens = 0)
        /\ hist.streak = max_failure_count => (state = OPEN /\ hist.opens = 1)

C1_Witness ==
    /\ Quiescent
    /\ max_failure_count = 3
    /\ hist.streak = 3
    /\ state = OPEN
    /\ hist.opens = 1

(* C2: a call made while the breaker is Open and the cooldown has not      *)
(* elapsed is rejected (fallback result or CircuitOpenError) in that very  *)
(* step: the protected function is not run and state, failure_counter,     *)
(* success_counter and start_time_open_state are unchanged.                *)
C2_RejectedWhileOpen ==
    [][\A t \in Threads :
          (Calls(t) /\ state = OPEN /\ start_time_open_state # None
                    /\ Elapsed <= timeout)
          => (Rejected(t) /\ UNCHANGED breaker_vars)]_vars

C2_Witness ==
    \E t \in Threads :
        /\ pc[t] = "done"
        /\ ret[t] = CircuitOpenError
        /\ hist.fed[t] = "none"
        /\ state = OPEN
        /\ Elapsed < timeout

(* C3: the cooldown comparison is strict.  A call made when the elapsed    *)
(* time equals the timeout is rejected; a call made when it is greater     *)
(* goes on to switch the breaker from Open to HalfOpen with                *)
(* success_counter 0, and that same call runs the protected function,      *)
(* whose outcome is handled with the breaker seen as HalfOpen.             *)
C3_StrictCooldown ==
    /\ [][\A t \in Threads :
            /\ (Calls(t) /\ state = OPEN /\ start_time_open_state # None
                         /\ Elapsed = timeout)
               => Rejected(t)
            /\ (Calls(t) /\ state = OPEN /\ start_time_open_state # None
                         /\ Elapsed > timeout)
               => (pc'[t] = "switch_half" /\ UNCHANGED breaker_vars)
            /\ (pc[t] = "switch_half" /\ pc'[t] # "switch_half")
               => (state = OPEN /\ state' = HALF_OPEN /\ success_counter' = 0
                   /\ pc'[t] = "exec")]_vars
    /\ [](\A t \in Threads :
            hist.trial[t] =>
                /\ pc[t] \in {"switch_half", "exec"} \/ hist.fed[t] # "none"
                /\ pc[t] = "exec" => state = HALF_OPEN
                /\ hist.fed[t] # "none" => hist.exit_state[t] = HALF_OPEN
                /\ pc[t] \notin {"inc_failure", "store_failure", "check_failure",
                                 "open_closed"})

C3_Witness ==
    \E t \in Threads :
        /\ hist.trial[t]
        /\ pc[t] = "done"
        /\ hist.fed[t] = "success"
        /\ hist.exit_state[t] = HALF_OPEN
        /\ ret[t].kind = "returned"

(* C4: in HalfOpen, calls made one after the other, k consecutive          *)
(* successes leave the breaker HalfOpen while k is below the success       *)
(* threshold and Closed when k equals it, and then failure_counter is 0.   *)
C4_ClosesOnThreshold ==
    (Quiescent /\ hist.hsucc >= 0) =>
        /\ hist.hsucc < min_success_count => state = HALF_OPEN
        /\ hist.hsucc = min_success_count =>
                (state = CLOSED /\ failure_counter = 0)

C4_Witness ==
    /\ Quiescent
    /\ min_success_count = 3
    /\ max_failure_count = 2
    /\ hist.hsucc = 3
    /\ state = CLOSED
    /\ failure_counter = 0

(* C5: when a call whose outcome __exit__ handled with the breaker         *)
(* HalfOpen ends with a counted failure, the breaker is Open,              *)
(* success_counter is 0 and start_time_open_state is the current time,     *)
(* whatever success_counter was.                                           *)
C5_HalfOpenFailureReopens ==
    [][\A t \in Threads :
          (pc[t] # "done" /\ pc'[t] = "done" /\ hist'.fed[t] = "failure"
                /\ hist'.exit_state[t] = HALF_OPEN)
          => (state' = OPEN /\ success_counter' = 0
                /\ start_time_open_state' = now')]_vars

C5_Witness ==
    \E t \in Threads :
        /\ pc[t] = "done"
        /\ hist.fed[t] = "failure"
        /\ hist.exit_state[t] = HALF_OPEN
        /\ hist.exit_sc[t] > 0
        /\ state = OPEN
        /\ success_counter = 0
        /\ start_time_open_state = now
        /\ now > 1

(* exc_type is, or is a subclass of, class c *)
Refines(exc_type, c) == c \in Bases(exc_type)
InHandled(exc_type) == \E c \in handle_exceptions : Refines(exc_type, c)
InExcluded(exc_type) == \E c \in excluded_exceptions : Refines(exc_type, c)

(* The step in which the protected function called by t ends *)
Ends(t) == pc[t] = "exec" /\ pc'[t] # "exec"

(* C6: when the protected function raises an error of the exclude-set,     *)
(* state, failure_counter, success_counter and start_time_open_state are   *)
(* unchanged, in every breaker state, and the call ends raising that       *)
(* error.                                                                  *)
C6_ExcludedErrorIgnored ==
    [][\A t \in Threads :
          (Ends(t) /\ ret'[t].kind = "raised" /\ InExcluded(ret'[t].exc))
          => /\ UNCHANGED breaker_vars
             /\ pc'[t] = "done"
             /\ hist'.fed[t] = "ignored"
             /\ ret'[t].exc \in Raisable]_vars

C6_Witness ==
    \E t \in Threads :
        /\ pc[t] = "done"
        /\ ret[t].kind = "raised"
        /\ ret[t].exc \in excluded_exceptions
        /\ hist.fed[t] = "ignored"
        /\ state = CLOSED
        /\ failure_counter > 0

(* C7 as stated: a raised error is counted iff it is in (or refines) the   *)
(* handled set and, when an exclude-set is configured, is not a member of  *)
(* the exclude-set.                                                        *)
C7_Original ==
    \A t \in Threads :
        hist.fed[t] \in {"failure", "ignored"} =>
            (hist.fed[t] = "failure"
                <=> /\ InHandled(ret[t].exc)
                    /\ excluded_exceptions # {} => ret[t].exc \notin excluded_exceptions)

(* C7, amended: a raised error is counted iff it is in (or refines) the    *)
(* handled set and, when an exclude-set is configured, neither is in nor   *)
(* refines the exclude-set.                                                *)
C7_Classifier ==
    \A t \in Threads :
        hist.fed[t] \in {"failure", "ignored"} =>
            (hist.fed[t] = "failure"
                <=> /\ InHandled(ret[t].exc)
                    /\ excluded_exceptions # {} => ~InExcluded(ret[t].exc))

C7_Witness ==
    \E t \in Threads :
        /\ hist.fed[t] = "ignored"
        /\ ret[t].exc = "KeyError"
        /\ "KeyError" \notin excluded_exceptions
        /\ InExcluded("KeyError")
        /\ InHandled("KeyError")

(* C8: CircuitOpenError is raised only by the step that rejects a call     *)
(* (breaker Open, cooldown not elapsed) and only when no fallback is       *)
(* configured; with a fallback configured a rejected call returns the      *)
(* fallback's result for the arguments of the call, and no caller ever     *)
(* gets CircuitOpenError.                                                  *)
C8_FallbackOrError ==
    /\ [][\A t \in Threads :
            /\ (ret'[t] = CircuitOpenError /\ ret[t] # CircuitOpenError)
               => (Calls(t) /\ state = OPEN /\ Elapsed <= timeout
                   /\ ~fallback_function /\ hist'.fed[t] = "none")
            /\ (Calls(t) /\ fallback_function /\ pc'[t] = "done")
               => (ret'[t].kind = "fallback" /\ ret'[t].arg = arg'[t]
                   /\ arg'[t] \in Args)
            /\ (ret'[t].kind = "fallback" /\ ret[t].kind # "fallback")
               => (Calls(t) /\ state = OPEN /\ Elapsed <= timeout)]_vars
    /\ [](fallback_function => \A t \in Threads : ret[t] # CircuitOpenError)

C8_Witness ==
    \E t \in Threads :
        /\ fallback_function
        /\ pc[t] = "done"
        /\ ret[t].kind = "fallback"
        /\ ret[t].arg = 1
        /\ state = OPEN

(* C9: time_left_in_open_state is 0 whenever the breaker is Closed or      *)
(* HalfOpen; it equals the timeout when the breaker enters Open and never  *)
(* grows while the breaker stays Open, down to 0 once the timeout has      *)
(* passed.                                                                 *)
C9_TimeLeft ==
    /\ [](state \in {CLOSED, HALF_OPEN} => time_left_in_open_state = 0)
    /\ [](time_left_in_open_state \in 0 .. timeout)
    /\ [](state = OPEN /\ Elapsed >= timeout => time_left_in_open_state = 0)
    /\ [][(state # OPEN /\ state' = OPEN) => time_left_in_open_state' = timeout]_vars
    /\ [][(state = OPEN /\ state' = OPEN)
            => time_left_in_open_state' <= time_left_in_open_state]_vars

C9_Witness ==
    /\ state = CLOSED
    /\ start_time_open_state # None
    /\ now - start_time_open_state > timeout
    /\ time_left_in_open_state = 0

----------------------------------------------------------------------------
(* Properties of concurrent callers, checked under SpecConc *)

(* The step in which caller t runs _switch_state(HALF_OPEN), line 113 *)
SwitchesHalfOpen(t) == pc[t] = "switch_half" /\ pc'[t] = "exec"

(* C11: for each stay in Open the transition to HalfOpen happens at most   *)
(* once: every caller that performs it finds the breaker still Open, so    *)
(* that no caller repeats the transition (and its success_counter reset)   *)
(* after another caller has already left Open.                             *)
C11_SingleSwitchPerOpenStay ==
    [][\A t \in Threads : SwitchesHalfOpen(t) => state = OPEN]_vars

(* The step in which caller t writes back failure_counter, line 230 *)
StoresFailure(t) == pc[t] = "store_failure" /\ pc'[t] = "check_failure"

(* C12: no counted failure is lost.  Two callers never both hold the same  *)
(* pre-increment failure_counter, every write-back of the counter makes it *)
(* one more than it was, and when the failures counted while Closed are    *)
(* complete and the breaker is still Closed, failure_counter is their      *)
(* number.                                                                 *)
C12_NoLostFailure ==
    /\ [](\A t, u \in Threads :
            (t # u /\ pc[t] = "store_failure" /\ pc[u] = "store_failure")
            => tmp[t] # tmp[u])
    /\ [][\A t \in Threads :
            StoresFailure(t) => failure_counter' = failure_counter + 1]_vars
    /\ []((Quiescent /\ state = CLOSED) => failure_counter = hist.cfail)

(* C13: every step that takes the breaker out of Open is the               *)
(* _switch_state(HALF_OPEN) of a caller that observed the cooldown as      *)
(* elapsed, and takes it to HalfOpen; a step of the clock changes nothing  *)
(* of the breaker; the breaker never goes from Open directly to Closed,    *)
(* whichever calls complete while it is Open.                              *)
C13_LeavesOpenByTrialOnly ==
    /\ [][(state = OPEN /\ state' # OPEN)
            => /\ state' = HALF_OPEN
               /\ \E t \in Threads : SwitchesHalfOpen(t) /\ hist.trial[t]]_vars
    /\ [][now' # now => UNCHANGED breaker_vars]_vars

----------------------------------------------------------------------------
(* Properties of calls made one after the other, checked under Spec *)

(* C14 as stated: success_counter is reset to 0 on every transition into   *)
(* HalfOpen and on every transition into Open, from HalfOpen as well as    *)
(* from Closed: right after any step that takes the breaker into Open or   *)
(* HalfOpen, success_counter is 0.                                         *)
C14_Original ==
    [][(state' # state /\ state' \in {OPEN, HALF_OPEN})
            => success_counter' = 0]_vars

(* C14, amended: success_counter is reset to 0 on every transition into    *)
(* HalfOpen and on every transition from HalfOpen into Open; a transition  *)
(* from Closed into Open leaves success_counter as it was.                 *)
C14_SuccessCounterReset ==
    [][/\ (state # HALF_OPEN /\ state' = HALF_OPEN) => success_counter' = 0
       /\ (state = HALF_OPEN /\ state' = OPEN) => success_counter' = 0
       /\ (state = CLOSED /\ state' = OPEN)
            => success_counter' = success_counter]_vars

C14_Witness ==
    /\ pc[Caller] = "done"
    /\ hist.fed[Caller] = "failure"
    /\ hist.exit_state[Caller] = CLOSED
    /\ state = OPEN
    /\ success_counter = min_success_count
    /\ start_time_open_state = now

(* C15: start_time_open_state is set to the current time by every step     *)
(* that takes the breaker into Open and changes at no other step;          *)
(* entering HalfOpen or Closed, successes, ignored errors and rejected     *)
(* calls leave it unchanged, and once set it is never cleared.             *)
C15_OpenedAtSetOnOpenOnly ==
    [][/\ (state # OPEN /\ state' = OPEN) => start_time_open_state' = now'
       /\ start_time_open_state' # start_time_open_state
            => (state # OPEN /\ state' = OPEN /\ start_time_open_state' = now)
       /\ start_time_open_state # None => start_time_open_state' # None]_vars

C15_Witness ==
    /\ Quiescent
    /\ state = HALF_OPEN
    /\ success_counter > 0
    /\ start_time_open_state # None
    /\ start_time_open_state < now
    /\ \E t \in Threads : hist.fed[t] = "success"

(* C16: a success while Closed leaves state, failure_counter,              *)
(* success_counter and start_time_open_state unchanged.  Hence, between    *)
(* calls, failure_counter of a Closed breaker is the number of failures    *)
(* counted since it last entered Closed (below the threshold), successes   *)
(* in between or not, and the breaker opens on the failure that makes      *)
(* that number max_failure_count.                                          *)
C16_SuccessInClosedIsNoOp ==
    /\ [][\A t \in Threads :
            (Ends(t) /\ ret'[t].kind = "returned" /\ state = CLOSED)
            => (UNCHANGED breaker_vars /\ pc'[t] = "done")]_vars
    /\ []((Quiescent /\ state = CLOSED)
            => (failure_counter = hist.cfail /\ hist.cfail < max_failure_count))
    /\ [][(state = CLOSED /\ state' = OPEN)
            => hist'.cfail = max_failure_count]_vars

C16_Witness ==
    /\ Quiescent
    /\ state = OPEN
    /\ hist.csucc
    /\ hist.cfail = max_failure_count
    /\ max_failure_count = 3

(* C19: between calls the counters stay within their thresholds:           *)
(* 0 <= failure_counter <= max_failure_count and                           *)
(* 0 <= success_counter <= min_success_count, with failure_counter below   *)
(* max_failure_count whenever the breaker is Closed and success_counter    *)
(* below min_success_count whenever it is HalfOpen.                        *)
C19_CountersWithinThresholds ==
    Quiescent =>
        /\ 0 <= failure_counter /\ failure_counter <= max_failure_count
        /\ 0 <= success_counter /\ success_counter <= min_success_count
        /\ state = CLOSED => failure_counter < max_failure_count
        /\ state = HALF_OPEN => success_counter < min_success_count

C19_Witness ==
    /\ Quiescent
    /\ state = HALF_OPEN
    /\ min_success_count = 3
    /\ success_counter = 2
    /\ failure_counter = max_failure_count
    /\ max_failure_count = 3

----------------------------------------------------------------------------
(* Properties of the constructor's timeout, checked under SpecAnyTimeout *)

(* The cooldown the breaker was configured with: the timeout given to the  *)
(* constructor, 0 included, or the default of 30 s when none was given     *)
ConfiguredCooldown ==
    IF hist.timeout_arg = None THEN TIMEOUT ELSE hist.timeout_arg

(* C17: the cooldown in force is the configured one for every configured   *)
(* value >= 0, 0 included, and the 30 s default only when no timeout was   *)
(* given: a call made while Open goes on as the trial call exactly when    *)
(* the time since the opening is greater than the configured cooldown.     *)
C17_ConfiguredCooldownInForce ==
    [][\A t \in Threads :
          (Calls(t) /\ state = OPEN)
          => (pc'[t] = "switch_half" <=> Elapsed > ConfiguredCooldown)]_vars

----------------------------------------------------------------------------
(* Progress, checked under SpecLive *)

(* C18: while the clock can still pass the end of the cooldown, a breaker  *)
(* that is Open eventually becomes HalfOpen with the caller's trial call   *)
(* running the protected function; and a breaker that is HalfOpen          *)
(* eventually becomes Closed, unless a call ends otherwise than with a     *)
(* success.                                                                *)
C18_EventuallyProbesAndCloses ==
    /\ (state = OPEN /\ start_time_open_state + timeout < MaxTime)
            ~> (state = HALF_OPEN /\ pc[Caller] = "exec" /\ hist.trial[Caller])
    /\ (state = HALF_OPEN)
            ~> (state = CLOSED \/ hist.fed[Caller] \in {"failure", "ignored"})

C18_Witness ==
    /\ state = CLOSED
    /\ start_time_open_state # None
    /\ pc[Caller] = "done"
    /\ hist.fed[Caller] = "success"
    /\ hist.exit_state[Caller] = HALF_OPEN
    /\ min_success_count = 2
    /\ hist.hsucc = 2

----------------------------------------------------------------------------
(* Late completions, checked under SpecConc *)

(* The protected function called by t ended when the breaker was Open:     *)
(* the call began while the breaker was Closed or HalfOpen and another     *)
(* caller's failure opened it in between                                   *)
CompletedLate(t) == hist.exit_state[t] = OPEN /\ hist.fed[t] \in {"success", "failure"}

(* C20: a call that began while the breaker was Closed or HalfOpen and     *)
(* whose protected function ends, with a success or a counted failure,     *)
(* after the breaker has become Open has no effect on the breaker: none    *)
(* of its steps changes state, failure_counter, success_counter or         *)
(* start_time_open_state.                                                  *)
C20_LateCompletionIsNoOp ==
    [][\A t \in Threads :
          (pc'[t] # pc[t] /\ (CompletedLate(t) \/ (Ends(t) /\ state = OPEN)))
          => UNCHANGED breaker_vars]_vars

====
